---- MODULE Spec2Model ----
(***************************************************************************)
(* Model of the driver main(argv) of src/src/run_ls.py: argument parsing,  *)
(* the four validation checks, the construction of the Spark context, the  *)
(* loading of the dataset, RowMatrix and RandLeastSquares, fit, the saving *)
(* of the result and the optional accuracy test.                           *)
(*                                                                         *)
(* An optional argument (argparse default None) is a sequence of length 0  *)
(* or 1.  Options that main only passes through and that influence no      *)
(* branch of main (npartitions, cache, projection_type, k, load_N, save_N, *)
(* debug, output_filename) are left out of the argument record.            *)
(***************************************************************************)
EXTENDS Integers, Sequences, FiniteSets, TLC

\* ---- bounds of the explored argument vectors ----
MaxDim == 2      \* m, n in 1..MaxDim ; r, s in 1..MaxDim+1
MaxIters == 1    \* -q in -MaxIters..MaxIters
MaxRep == 1      \* --nrepetitions in -MaxRep..MaxRep

None == << >>
Some(v) == << v >>
IsNone(o) == o = << >>
Val(o) == o[1]
Opt(S) == {None} \cup {Some(v) : v \in S}

VARIABLES
    argv,          \* the command line, as the options given
    args,          \* the namespace returned by parser.parse_args
    pc,            \* position of main
    err,           \* the exception that ended main, "none" while running
    sc,            \* a SparkContext has been created
    Ab_rdd,        \* the dataset has been loaded
    matrix_Ab,     \* None, or Some(repnum) once RowMatrix is constructed
    ls,            \* None, or Some(parameters) once RandLeastSquares is constructed
    fitCalled,     \* ls.fit has been called
    fitReturned,   \* ls.fit has returned
    saved,         \* number of times the result was written by pickle_write
    isfileChecked, \* os.path.isfile was evaluated on the x_opt file
    x_opt,         \* "undef", "loaded" or "computed"
    f_opt,         \* "undef", "loaded" or "computed"
    collected,     \* matrix_Ab.rdd_original.values().collect() was run
    relerr         \* ls.comp_relerr has been called

vars == << argv, args, pc, err, sc, Ab_rdd, matrix_Ab, ls, fitCalled,
           fitReturned, saved, isfileChecked, x_opt, f_opt, collected, relerr >>

work == << sc, Ab_rdd, matrix_Ab, ls, fitCalled, fitReturned, saved,
           isfileChecked, x_opt, f_opt, collected, relerr >>

Dims == 1..MaxDim
Sizes == 1..(MaxDim + 1)

ArgvSet ==
    [ print_help : {FALSE},
      m : Dims, n : Dims,
      nrepetitions : Opt((-MaxRep)..MaxRep),
      hdfs : BOOLEAN,
      low : BOOLEAN, high : BOOLEAN,
      projection : BOOLEAN, sampling : BOOLEAN,
      r : Sizes,
      s : Opt(Sizes),
      q : Opt((-MaxIters)..MaxIters),
      test : BOOLEAN,
      save_logs : BOOLEAN ]

HelpArgv ==
    [ print_help |-> TRUE, m |-> 1, n |-> 1, nrepetitions |-> None,
      hdfs |-> FALSE, low |-> FALSE, high |-> FALSE, projection |-> FALSE,
      sampling |-> FALSE, r |-> 1, s |-> None, q |-> None, test |-> FALSE,
      save_logs |-> FALSE ]

NoArgs ==
    [ m |-> 0, n |-> 0, nrepetitions |-> 0, file_source |-> "unparsed",
      solver_type |-> "unparsed", sketch_type |-> None, r |-> 0,
      s |-> None, q |-> None, test |-> FALSE, save_logs |-> FALSE ]

Init ==
    /\ argv \in ArgvSet \cup {HelpArgv}
    /\ args = NoArgs
    /\ pc = "parse"
    /\ err = "none"
    /\ sc = FALSE
    /\ Ab_rdd = FALSE
    /\ matrix_Ab = None
    /\ ls = None
    /\ fitCalled = FALSE
    /\ fitReturned = FALSE
    /\ saved = 0
    /\ isfileChecked = FALSE
    /\ x_opt = "undef"
    /\ f_opt = "undef"
    /\ collected = FALSE
    /\ relerr = FALSE

\* ---- argparse ----
\* the two mutually exclusive groups
GroupConflict(a) == (a.low /\ a.high) \/ (a.projection /\ a.sampling)

SolverType(a) == IF a.high THEN "high_precision" ELSE "low_precision"

SketchType(a) ==
    IF a.projection THEN Some("projection")
    ELSE IF a.sampling THEN Some("sampling")
    ELSE None

Repetitions(a) == IF IsNone(a.nrepetitions) THEN 1 ELSE Val(a.nrepetitions)

Namespace(a) ==
    [ m |-> a.m, n |-> a.n,
      nrepetitions |-> Repetitions(a),
      file_source |-> IF a.hdfs THEN "hdfs" ELSE "local",
      solver_type |-> SolverType(a),
      sketch_type |-> SketchType(a),
      r |-> a.r, s |-> a.s, q |-> a.q,
      test |-> a.test, save_logs |-> a.save_logs ]

Raise(e) ==
    /\ pc' = "error"
    /\ err' = e

Goto(p) ==
    /\ pc' = p
    /\ err' = err

PrintHelp ==
    /\ pc = "parse"
    /\ argv.print_help
    /\ Raise("SystemExit_1")
    /\ UNCHANGED << argv, args, work >>

ParseArgs ==
    /\ pc = "parse"
    /\ ~argv.print_help
    /\ IF GroupConflict(argv)
       THEN Raise("SystemExit_2") /\ args' = args
       ELSE Goto("v_dims") /\ args' = Namespace(argv)
    /\ UNCHANGED << argv, work >>

\* ---- validating ----
DimsInvalid_mut(a) == a.m <= a.n

DimsInvalid(a) == a.m < a.n

SamplingSizeMissing_mut(a) == a.sketch_type = Some("projection") /\ IsNone(a.s)

SamplingSizeMissing(a) == a.sketch_type = Some("sampling") /\ IsNone(a.s)

ItersMissing_mut(a) == FALSE

ItersMissing(a) == a.solver_type = "high_precision" /\ IsNone(a.q)

SketchMissing_mut(a) == a.solver_type = "high_precision" /\ IsNone(a.sketch_type)

SketchMissing(a) == a.solver_type = "low_precision" /\ IsNone(a.sketch_type)

ValidateDims ==
    /\ pc = "v_dims"
    /\ IF DimsInvalid(args) THEN Raise("ValueError_dims") ELSE Goto("v_sampling")
    /\ UNCHANGED << argv, args, work >>

ValidateSampling ==
    /\ pc = "v_sampling"
    /\ IF SamplingSizeMissing(args) THEN Raise("ValueError_sampling") ELSE Goto("v_iters")
    /\ UNCHANGED << argv, args, work >>

ValidateIters ==
    /\ pc = "v_iters"
    /\ IF ItersMissing(args) THEN Raise("ValueError_iters") ELSE Goto("v_sketch")
    /\ UNCHANGED << argv, args, work >>

\* the last check made only after the Spark context exists
ValidateSketch_mut ==
    /\ pc = "v_sketch"
    /\ sc' = TRUE
    /\ IF SketchMissing(args) THEN Raise("ValueError_sketch") ELSE Goto("print_params")
    /\ UNCHANGED << argv, args, Ab_rdd, matrix_Ab, ls, fitCalled, fitReturned,
                    saved, isfileChecked, x_opt, f_opt, collected, relerr >>

ValidateSketch ==
    /\ pc = "v_sketch"
    /\ IF SketchMissing(args) THEN Raise("ValueError_sketch") ELSE Goto("print_params")
    /\ UNCHANGED << argv, args, work >>

\* print_params only logs
PrintParams ==
    /\ pc = "print_params"
    /\ Goto("spark")
    /\ UNCHANGED << argv, args, work >>

\* ---- distributed work ----
\* both branches on save_logs build a SparkConf and then the SparkContext
CreateSparkContext ==
    /\ pc = "spark"
    /\ sc' = TRUE
    /\ Goto("load")
    /\ UNCHANGED << argv, args, Ab_rdd, matrix_Ab, ls, fitCalled, fitReturned,
                    saved, isfileChecked, x_opt, f_opt, collected, relerr >>

\* sc.textFile is lazy and returns; np.loadtxt reads the local file now and
\* raises when it cannot
LoadDataset ==
    /\ pc = "load"
    /\ \/ Ab_rdd' = TRUE /\ Goto("rowmatrix")
       \/ args.file_source = "local" /\ Ab_rdd' = Ab_rdd /\ Raise("IOError")
    /\ UNCHANGED << argv, args, sc, matrix_Ab, ls, fitCalled, fitReturned,
                    saved, isfileChecked, x_opt, f_opt, collected, relerr >>

ConstructRowMatrix ==
    /\ pc = "rowmatrix"
    /\ matrix_Ab' = Some(args.nrepetitions)
    /\ Goto("ls_init")
    /\ UNCHANGED << argv, args, sc, Ab_rdd, ls, fitCalled, fitReturned,
                    saved, isfileChecked, x_opt, f_opt, collected, relerr >>

ConstructLS ==
    /\ pc = "ls_init"
    /\ ls' = Some([ solver_type |-> args.solver_type,
                    sketch_type |-> args.sketch_type,
                    c |-> args.r, s |-> args.s, num_iters |-> args.q ])
    /\ Goto("fit")
    /\ UNCHANGED << argv, args, sc, Ab_rdd, matrix_Ab, fitCalled, fitReturned,
                    saved, isfileChecked, x_opt, f_opt, collected, relerr >>

\* ls.fit either returns or raises an error of the core
Fit ==
    /\ pc = "fit"
    /\ fitCalled' = TRUE
    /\ \/ fitReturned' = TRUE /\ Goto("save")
       \/ fitReturned' = fitReturned /\ Raise("CoreError")
    /\ UNCHANGED << argv, args, sc, Ab_rdd, matrix_Ab, ls,
                    saved, isfileChecked, x_opt, f_opt, collected, relerr >>

\* the result is not written
PickleWrite_mut ==
    /\ pc = "save"
    /\ saved' = saved
    /\ Goto("test")
    /\ UNCHANGED << argv, args, sc, Ab_rdd, matrix_Ab, ls, fitCalled,
                    fitReturned, isfileChecked, x_opt, f_opt, collected, relerr >>

PickleWrite ==
    /\ pc = "save"
    /\ saved' = saved + 1
    /\ Goto("test")
    /\ UNCHANGED << argv, args, sc, Ab_rdd, matrix_Ab, ls, fitCalled,
                    fitReturned, isfileChecked, x_opt, f_opt, collected, relerr >>

\* ---- test mode ----
\* the test block entered whatever the flag
TestBranch_mut ==
    /\ pc = "test"
    /\ Goto("isfile")
    /\ UNCHANGED << argv, args, work >>

TestBranch ==
    /\ pc = "test"
    /\ IF args.test THEN Goto("isfile") ELSE Goto("done")
    /\ UNCHANGED << argv, args, work >>

\* os.path.isfile: the file system decides
CheckOptFile ==
    /\ pc = "isfile"
    /\ isfileChecked' = TRUE
    /\ \E found \in BOOLEAN : Goto(IF found THEN "load_opt" ELSE "compute_opt")
    /\ UNCHANGED << argv, args, sc, Ab_rdd, matrix_Ab, ls, fitCalled,
                    fitReturned, saved, x_opt, f_opt, collected, relerr >>

\* np.loadtxt(dire+...): the name dire is bound nowhere, evaluating the
\* argument raises NameError before anything is read
LoadOpt ==
    /\ pc = "load_opt"
    /\ Raise("NameError")
    /\ UNCHANGED << argv, args, work >>

ComputeOpt ==
    /\ pc = "compute_opt"
    /\ collected' = TRUE
    /\ x_opt' = "computed"
    /\ f_opt' = "computed"
    /\ Goto("relerr")
    /\ UNCHANGED << argv, args, sc, Ab_rdd, matrix_Ab, ls, fitCalled,
                    fitReturned, saved, isfileChecked, relerr >>

CompRelerr ==
    /\ pc = "relerr"
    /\ relerr' = TRUE
    /\ Goto("done")
    /\ UNCHANGED << argv, args, sc, Ab_rdd, matrix_Ab, ls, fitCalled,
                    fitReturned, saved, isfileChecked, x_opt, f_opt, collected >>

Next ==
    \/ PrintHelp
    \/ ParseArgs
    \/ ValidateDims
    \/ ValidateSampling
    \/ ValidateIters
    \/ ValidateSketch
    \/ PrintParams
    \/ CreateSparkContext
    \/ LoadDataset
    \/ ConstructRowMatrix
    \/ ConstructLS
    \/ Fit
    \/ PickleWrite
    \/ TestBranch
    \/ CheckOptFile
    \/ LoadOpt
    \/ ComputeOpt
    \/ CompRelerr

Spec == Init /\ [][Next]_vars

\* ---- vocabulary of the properties ----
Parsed == args # NoArgs

Terminal == pc \in {"done", "error"}

ConfigErrors ==
    {"ValueError_dims", "ValueError_sampling", "ValueError_iters", "ValueError_sketch"}

Validating == {"v_dims", "v_sampling", "v_iters", "v_sketch"}

NoDistributedWork ==
    /\ ~sc
    /\ ~Ab_rdd
    /\ IsNone(matrix_Ab)
    /\ IsNone(ls)
    /\ ~fitCalled
    /\ saved = 0

NoReference ==
    /\ ~isfileChecked
    /\ x_opt = "undef"
    /\ f_opt = "undef"
    /\ ~collected
    /\ ~relerr

TypeOK ==
    /\ argv \in ArgvSet \cup {HelpArgv}
    /\ pc \in Validating \cup {"parse", "print_params", "spark", "load", "rowmatrix",
                               "ls_init", "fit", "save", "test", "isfile", "load_opt",
                               "compute_opt", "relerr", "done", "error"}
    /\ err \in ConfigErrors \cup {"none", "SystemExit_1", "SystemExit_2", "IOError",
                                  "CoreError", "NameError"}
    /\ saved \in Nat
    /\ x_opt \in {"undef", "loaded", "computed"}
    /\ f_opt \in {"undef", "loaded", "computed"}

\* C1: a run that ends in one of the four configuration errors of main has
\* created no SparkContext, loaded no dataset, constructed no RowMatrix and no
\* RandLeastSquares, not called fit and written no result; the error ends the
\* run and main takes no further step (nothing is retried).
C1_ConfigErrorsEager ==
    /\ [](err \in ConfigErrors => pc = "error" /\ NoDistributedWork)
    /\ [][err \notin ConfigErrors]_vars

C1_Witness == pc = "error" /\ err = "ValueError_sketch" /\ ~sc /\ saved = 0

\* C2 (as claimed): with --high_precision and q unset, zero or negative the
\* run fails with a configuration error and never reaches fit.
C2_Original ==
    (args.solver_type = "high_precision" /\ (IsNone(args.q) \/ Val(args.q) <= 0))
        => /\ ~fitCalled
           /\ (Terminal => err \in ConfigErrors)

\* C2 (amended): with --high_precision and q unset the run fails with a
\* configuration error and never reaches fit; the iteration-count error is
\* raised only when q is unset, whatever integer q is given (zero and negative
\* included) passes this check.
C2_ItersRequired ==
    /\ (args.solver_type = "high_precision" /\ IsNone(args.q))
           => /\ ~fitCalled
              /\ pc \in {"v_dims", "v_sampling", "v_iters", "error"}
              /\ (pc = "error" => err \in ConfigErrors)
    /\ err = "ValueError_iters"
           => args.solver_type = "high_precision" /\ IsNone(args.q)
    /\ (Parsed /\ ~IsNone(args.q) /\ pc \notin {"v_dims", "v_sampling", "v_iters"})
           => err # "ValueError_iters"

C2_Witness ==
    pc = "error" /\ err = "ValueError_iters" /\ argv.high /\ IsNone(argv.q)

\* C3 (as claimed): when the sketch size r or the sampling size s is smaller
\* than n+1 the run fails with a configuration error before the SparkContext
\* is created, the matrix is loaded or fit is called.
C3_Original ==
    (Parsed /\ (args.r < args.n + 1
                  \/ (args.sketch_type = Some("sampling") /\ ~IsNone(args.s)
                        /\ Val(args.s) < args.n + 1)))
        => /\ ~sc
           /\ ~Ab_rdd
           /\ ~fitCalled
           /\ (Terminal => err \in ConfigErrors)

C5_SketchRequired ==
    /\ (Parsed /\ ~argv.high) => args.solver_type = "low_precision"
    /\ (args.solver_type = "low_precision" /\ IsNone(args.sketch_type))
           => /\ ~fitCalled
              /\ pc \in Validating \cup {"error"}
              /\ (pc = "error" => err \in ConfigErrors)
    /\ fitCalled => ~(args.solver_type = "low_precision" /\ IsNone(args.sketch_type))

C5_Witness ==
    /\ pc = "error" /\ err = "ValueError_sketch"
    /\ ~argv.low /\ ~argv.high /\ ~argv.projection /\ ~argv.sampling

\* C6: a run with --sampling and no -s value fails validation before the core
\* runs; fit is never reached with sketch_type = sampling and s = None.
C6_SamplingSizeRequired ==
    /\ (args.sketch_type = Some("sampling") /\ IsNone(args.s))
           => /\ NoDistributedWork
              /\ pc \in {"v_dims", "v_sampling", "error"}
              /\ (pc = "error" => err \in ConfigErrors)
    /\ fitCalled => ~(args.sketch_type = Some("sampling") /\ IsNone(args.s))

C6_Witness ==
    pc = "error" /\ err = "ValueError_sampling" /\ argv.sampling /\ IsNone(argv.s)

\* C7: without the test flag main never looks for or reads the x_opt / f_opt
\* files, never collects the rows, never computes the exact solution and never
\* calls comp_relerr; and with or without the flag, nothing of the reference
\* solution has happened until fit has returned and the result is saved.
C7_ReferenceOffSolvePath ==
    /\ ~args.test => NoReference
    /\ (~fitReturned \/ saved = 0) => NoReference

C7_Witness == pc = "done" /\ ~args.test /\ fitReturned /\ saved = 1 /\ NoReference

\* C8 (as claimed): in test mode, once fit has returned, the run ends having
\* obtained x_opt and f_opt (loaded when the files are found, computed when
\* they are not) and having called comp_relerr.
C8_Original ==
    (args.test /\ fitReturned /\ Terminal)
        => /\ pc = "done"
           /\ relerr
           /\ x_opt # "undef"
           /\ f_opt # "undef"

C10_Original == ~IsNone(matrix_Ab) => Val(matrix_Ab) >= 1
====
